---- MODULE Spec2Model ----
(***************************************************************************)
(* Model of cardinal_pythonlib/text.py: the newline/tab escape codec and   *)
(* the Unicode range expander with its category table.                     *)
(*                                                                         *)
(* A Python str is a sequence of code points; it is modelled as a TLA+     *)
(* sequence of integers (the code points).  Python indexes from 0, TLA+    *)
(* from 1: the loops keep Python's indexes and index() does the shift.     *)
(***************************************************************************)
EXTENDS Integers, Sequences, FiniteSets, TLC

VARIABLES
    src0,       \* codec: the string the call chain started from
    chain,      \* codec: names of the functions applied so far, in order
    arg,        \* codec: the argument of the last call
    ret,        \* codec: what the last call returned
    err,        \* codec: the exception the last call raised ("none")
    scan,       \* codec: the locals of the last unescape loop at its return
    entered,    \* codec: times the stepwise loop has set in_escape = True
    srclist,    \* unicode: the declaration list handed to the expander
    decls,      \* unicode: what srclist was written from (ghost)
    table,      \* unicode: _UNICODE_CATEGORY_SRC
    ufn,        \* unicode: the last function called
    uarg,       \* unicode: the category name of the last lookup
    uret,       \* unicode: the outcome of the last call
    single,     \* unicode: per name, the outcome of its last single lookup
    batch,      \* unicode: the outcome of the last batch expansion
    expanded,   \* unicode: the outcome of the last expansion of srclist
    ncalls      \* unicode: number of table calls made so far

vars == <<src0, chain, arg, ret, err, scan, entered,
          srclist, decls, table, ufn, uarg, uret, single, batch, expanded, ncalls>>

codec_vars == <<src0, chain, arg, ret, err, scan, entered>>
unicode_vars ==
    <<srclist, decls, table, ufn, uarg, uret, single, batch, expanded, ncalls>>

(***************************************************************************)
(* Bounds                                                                  *)
(***************************************************************************)
MaxLen == 3         \* longest input string of the codec
MaxChain == 2       \* longest chain of codec calls on one input
MaxDecls == 2       \* longest declaration list handed to the expander
MaxSpan == 2        \* widest range drawn: last - first <= MaxSpan
MaxCalls == 3       \* longest sequence of calls on the category table

(***************************************************************************)
(* Characters                                                              *)
(***************************************************************************)
BACKSLASH == 92
LF == 10
CR == 13
TAB == 9
LETTER_r == 114
LETTER_n == 110
LETTER_t == 116

\* The characters inputs are drawn from: the four specials, the three
\* letters that follow a backslash in an escape sequence, and 'a'.
Alphabet == {BACKSLASH, LF, CR, TAB, LETTER_r, LETTER_n, LETTER_t, 97}

Strings(n) == UNION {[1..k -> Alphabet] : k \in 0..n}

NoString == <<-1>>      \* stands for "no value was returned"

(***************************************************************************)
(* Python built-ins used by the codec                                      *)
(***************************************************************************)
\* s[i] for a Python index i >= 0: IndexError outside 0..len(s)-1.
InRange(s, i) == i >= 0 /\ i < Len(s)
index(s, i) == s[i + 1]

\* str.replace(old, new): every non-overlapping occurrence of old, found
\* left to right, is replaced by new (old is not empty).
RECURSIVE replace_from(_, _, _, _)
replace_from(s, old, new, i) ==
    IF i >= Len(s) THEN <<>>
    ELSE IF i + Len(old) <= Len(s) /\ SubSeq(s, i + 1, i + Len(old)) = old
         THEN new \o replace_from(s, old, new, i + Len(old))
         ELSE <<index(s, i)>> \o replace_from(s, old, new, i + 1)

replace(s, old, new) == replace_from(s, old, new, 0)

(***************************************************************************)
(* escape_newlines / escape_tabs_newlines                                  *)
(***************************************************************************)
\* Variants of escape_newlines with a slip in them, used to show that the
\* properties below depend on the code as written.
escape_newlines_backslash_last(s) ==
    IF s = <<>> THEN s
    ELSE LET s1 == replace(s, <<LF>>, <<BACKSLASH, LETTER_n>>)
             s2 == replace(s1, <<CR>>, <<BACKSLASH, LETTER_r>>)
             s3 == replace(s2, <<BACKSLASH>>, <<BACKSLASH, BACKSLASH>>)
         IN  s3

escape_newlines_no_cr(s) ==
    IF s = <<>> THEN s
    ELSE LET s1 == replace(s, <<BACKSLASH>>, <<BACKSLASH, BACKSLASH>>)
             s2 == replace(s1, <<LF>>, <<BACKSLASH, LETTER_n>>)
         IN  s2

escape_newlines_with_tab(s) ==
    IF s = <<>> THEN s
    ELSE LET s1 == replace(s, <<BACKSLASH>>, <<BACKSLASH, BACKSLASH>>)
             s2 == replace(s1, <<LF>>, <<BACKSLASH, LETTER_n>>)
             s3 == replace(s2, <<CR>>, <<BACKSLASH, LETTER_r>>)
             s4 == replace(s3, <<TAB>>, <<BACKSLASH, LETTER_t>>)
         IN  s4

\* escape_newlines without its backslash pass.
escape_newlines_no_backslash(s) ==
    IF s = <<>> THEN s
    ELSE LET s2 == replace(s, <<LF>>, <<BACKSLASH, LETTER_n>>)
             s3 == replace(s2, <<CR>>, <<BACKSLASH, LETTER_r>>)
         IN  s3

escape_newlines(s) ==
    IF s = <<>> THEN s
    ELSE LET s1 == replace(s, <<BACKSLASH>>, <<BACKSLASH, BACKSLASH>>)
             s2 == replace(s1, <<LF>>, <<BACKSLASH, LETTER_n>>)
             s3 == replace(s2, <<CR>>, <<BACKSLASH, LETTER_r>>)
         IN  s3

\* escape_tabs_newlines with the backslash pass run last.
escape_tabs_newlines_backslash_last(s) ==
    IF s = <<>> THEN s
    ELSE LET s1 == replace(s, <<LF>>, <<BACKSLASH, LETTER_n>>)
             s2 == replace(s1, <<CR>>, <<BACKSLASH, LETTER_r>>)
             s3 == replace(s2, <<TAB>>, <<BACKSLASH, LETTER_t>>)
             s4 == replace(s3, <<BACKSLASH>>, <<BACKSLASH, BACKSLASH>>)
         IN  s4

\* escape_tabs_newlines without its tab pass.
escape_tabs_newlines_no_tab(s) ==
    IF s = <<>> THEN s
    ELSE LET s1 == replace(s, <<BACKSLASH>>, <<BACKSLASH, BACKSLASH>>)
             s2 == replace(s1, <<LF>>, <<BACKSLASH, LETTER_n>>)
             s3 == replace(s2, <<CR>>, <<BACKSLASH, LETTER_r>>)
         IN  s3

\* escape_tabs_newlines with the tab pass run before the backslash pass.
escape_tabs_newlines_tab_first(s) ==
    IF s = <<>> THEN s
    ELSE LET s1 == replace(s, <<TAB>>, <<BACKSLASH, LETTER_t>>)
             s2 == replace(s1, <<BACKSLASH>>, <<BACKSLASH, BACKSLASH>>)
             s3 == replace(s2, <<LF>>, <<BACKSLASH, LETTER_n>>)
             s4 == replace(s3, <<CR>>, <<BACKSLASH, LETTER_r>>)
         IN  s4

escape_tabs_newlines(s) ==
    IF s = <<>> THEN s
    ELSE LET s1 == replace(s, <<BACKSLASH>>, <<BACKSLASH, BACKSLASH>>)
             s2 == replace(s1, <<LF>>, <<BACKSLASH, LETTER_n>>)
             s3 == replace(s2, <<CR>>, <<BACKSLASH, LETTER_r>>)
             s4 == replace(s3, <<TAB>>, <<BACKSLASH, LETTER_t>>)
         IN  s4

(***************************************************************************)
(* unescape_newlines / unescape_tabs_newlines                              *)
(*                                                                         *)
(* The loops return the function's outcome together with the locals at     *)
(* the return: [ret, err, in_escape, i] where i counts the characters      *)
(* the loop has processed.                                                 *)
(***************************************************************************)
NoScan == [in_escape |-> FALSE, i |-> 0]

Returned(d, in_escape, i) ==
    [ret |-> d, err |-> "none", in_escape |-> in_escape, i |-> i]
Raised(e, in_escape, i) ==
    [ret |-> NoString, err |-> e, in_escape |-> in_escape, i |-> i]

\* for i in range(stop): c = s[i]; ...
RECURSIVE unescape_newlines_loop(_, _, _, _, _)
unescape_newlines_loop(s, stop, i, d, in_escape) ==
    IF i >= stop THEN Returned(d, in_escape, i)
    ELSE IF ~InRange(s, i) THEN Raised("IndexError", in_escape, i)
    ELSE LET c == index(s, i) IN
         IF in_escape
         THEN IF c = LETTER_r
              THEN unescape_newlines_loop(s, stop, i + 1, d \o <<CR>>, FALSE)
              ELSE IF c = LETTER_n
              THEN unescape_newlines_loop(s, stop, i + 1, d \o <<LF>>, FALSE)
              ELSE unescape_newlines_loop(s, stop, i + 1, d \o <<c>>, FALSE)
         ELSE IF c = BACKSLASH
              THEN unescape_newlines_loop(s, stop, i + 1, d, TRUE)
              ELSE unescape_newlines_loop(s, stop, i + 1, d \o <<c>>, FALSE)

\* The loop of unescape_newlines without its branch for "n".
RECURSIVE unescape_newlines_loop_no_n(_, _, _, _, _)
unescape_newlines_loop_no_n(s, stop, i, d, in_escape) ==
    IF i >= stop THEN Returned(d, in_escape, i)
    ELSE IF ~InRange(s, i) THEN Raised("IndexError", in_escape, i)
    ELSE LET c == index(s, i) IN
         IF in_escape
         THEN IF c = LETTER_r
              THEN unescape_newlines_loop_no_n(s, stop, i + 1, d \o <<CR>>, FALSE)
              ELSE unescape_newlines_loop_no_n(s, stop, i + 1, d \o <<c>>, FALSE)
         ELSE IF c = BACKSLASH
              THEN unescape_newlines_loop_no_n(s, stop, i + 1, d, TRUE)
              ELSE unescape_newlines_loop_no_n(s, stop, i + 1, d \o <<c>>, FALSE)

unescape_newlines_run_no_n(s) ==
    IF s = <<>> THEN Returned(s, FALSE, 0)
    ELSE unescape_newlines_loop_no_n(s, Len(s), 0, <<>>, FALSE)

\* unescape_newlines with a pending backslash flushed at the end of input.
unescape_newlines_run_flush(s) ==
    IF s = <<>> THEN Returned(s, FALSE, 0)
    ELSE LET r == unescape_newlines_loop(s, Len(s), 0, <<>>, FALSE) IN
         IF r.in_escape THEN Returned(r.ret \o <<BACKSLASH>>, TRUE, r.i) ELSE r

unescape_newlines_run(s) ==
    IF s = <<>> THEN Returned(s, FALSE, 0)
    ELSE unescape_newlines_loop(s, Len(s), 0, <<>>, FALSE)

unescape_newlines(s) == unescape_newlines_run(s).ret

RECURSIVE unescape_tabs_newlines_loop(_, _, _, _, _)
unescape_tabs_newlines_loop(s, stop, i, d, in_escape) ==
    IF i >= stop THEN Returned(d, in_escape, i)
    ELSE IF ~InRange(s, i) THEN Raised("IndexError", in_escape, i)
    ELSE LET c == index(s, i) IN
         IF in_escape
         THEN IF c = LETTER_r
              THEN unescape_tabs_newlines_loop(s, stop, i + 1, d \o <<CR>>, FALSE)
              ELSE IF c = LETTER_n
              THEN unescape_tabs_newlines_loop(s, stop, i + 1, d \o <<LF>>, FALSE)
              ELSE IF c = LETTER_t
              THEN unescape_tabs_newlines_loop(s, stop, i + 1, d \o <<TAB>>, FALSE)
              ELSE unescape_tabs_newlines_loop(s, stop, i + 1, d \o <<c>>, FALSE)
         ELSE IF c = BACKSLASH
              THEN unescape_tabs_newlines_loop(s, stop, i + 1, d, TRUE)
              ELSE unescape_tabs_newlines_loop(s, stop, i + 1, d \o <<c>>, FALSE)

unescape_tabs_newlines_run(s) ==
    IF s = <<>> THEN Returned(s, FALSE, 0)
    ELSE unescape_tabs_newlines_loop(s, Len(s), 0, <<>>, FALSE)

unescape_tabs_newlines(s) == unescape_tabs_newlines_run(s).ret

(***************************************************************************)
(* Unicode range expander: _unicode_def_src_to_str                         *)
(*                                                                         *)
(* An element of srclist is an int or a str; isinstance(src, int) is the   *)
(* field "int".  Outcomes are [err, val]: err is "none" and val the        *)
(* returned value, or err names the exception and val is NoString.         *)
(***************************************************************************)
IntDecl(n) == [int |-> TRUE, v |-> n, s |-> <<>>]
StrDecl(s) == [int |-> FALSE, v |-> 0, s |-> s]

Ok(v) == [err |-> "none", val |-> v]
Fail(e) == [err |-> e, val |-> NoString]

HYPHEN == 45

\* chr(x): the one-character string of code point x; ValueError outside
\* range(0x110000).  Surrogate code points are inside it.  (Beyond the
\* range of a C int chr raises OverflowError instead; the integers of the
\* model stay within that range.)
chr_unchecked(x) == Ok(<<x>>)

chr(x) == IF x >= 0 /\ x <= 1114111 THEN Ok(<<x>>) ELSE Fail("ValueError")

\* The value of a hexadecimal digit, -1 for any other character.
HexVal(c) ==
    IF c \in 48..57 THEN c - 48
    ELSE IF c \in 65..70 THEN c - 55
    ELSE IF c \in 97..102 THEN c - 87
    ELSE -1

\* int(x, 16) on strings of hexadecimal digits, hyphens and letters:
\* ValueError for the empty string and for any character that is no digit.
RECURSIVE int16_from(_, _, _)
int16_from(x, k, acc) ==
    IF k > Len(x) THEN Ok(acc)
    ELSE IF HexVal(x[k]) < 0 THEN Fail("ValueError")
    ELSE int16_from(x, k + 1, acc * 16 + HexVal(x[k]))

int16(x) == IF x = <<>> THEN Fail("ValueError") ELSE int16_from(x, 1, 0)

\* src.split(sep): the pieces between the occurrences of sep, in order
\* (n occurrences give n + 1 pieces, empty ones included).
RECURSIVE split_from(_, _, _, _)
split_from(s, sep, k, piece) ==
    IF k > Len(s) THEN <<piece>>
    ELSE IF s[k] = sep THEN <<piece>> \o split_from(s, sep, k + 1, <<>>)
    ELSE split_from(s, sep, k + 1, piece \o <<s[k]>>)

split(s, sep) == split_from(s, sep, 1, <<>>)

\* [int(x, 16) for x in parts]
RECURSIVE int16_all(_, _)
int16_all(parts, k) ==
    IF k > Len(parts) THEN Ok(<<>>)
    ELSE LET n == int16(parts[k]) IN
         IF n.err # "none" THEN n
         ELSE LET rest == int16_all(parts, k + 1) IN
              IF rest.err # "none" THEN rest ELSE Ok(<<n.val>> \o rest.val)

\* [chr(x) for x in range(first, stop)], as the concatenation of its
\* elements; the first chr that raises ends the comprehension.
chr_range(first, stop) ==
    LET bad == {x \in first..(stop - 1) : chr(x).err # "none"}
    IN  IF bad # {}
        THEN chr(CHOOSE x \in bad : \A y \in bad : x <= y)
        ELSE Ok([k \in 1..(stop - first) |-> chr(first + k - 1).val[1]])

\* first, last = [int(x, 16) for x in src.split("-")];
\* charlist += [chr(x) for x in range(first, last + 1)]
expand_range(src) ==
    LET ends == int16_all(split(src, HYPHEN), 1) IN
    IF ends.err # "none" THEN ends
    ELSE IF Len(ends.val) # 2 THEN Fail("ValueError")
    ELSE chr_range(ends.val[1], ends.val[2] + 1)

\* expand_range with range(first, last): the last code point left out
expand_range_exclusive(src) ==
    LET ends == int16_all(split(src, HYPHEN), 1) IN
    IF ends.err # "none" THEN ends
    ELSE IF Len(ends.val) # 2 THEN Fail("ValueError")
    ELSE chr_range(ends.val[1], ends.val[2])

\* expand_range with a check that first <= last
expand_range_checked(src) ==
    LET ends == int16_all(split(src, HYPHEN), 1) IN
    IF ends.err # "none" THEN ends
    ELSE IF Len(ends.val) # 2 THEN Fail("ValueError")
    ELSE IF ends.val[1] > ends.val[2] THEN Fail("ValueError")
    ELSE chr_range(ends.val[1], ends.val[2] + 1)

\* The loop over srclist from its k-th element on, charlist joined.
RECURSIVE def_src_loop(_, _, _)
def_src_loop(list, k, charlist) ==
    IF k > Len(list) THEN Ok(charlist)
    ELSE LET src == list[k]
             got == IF src.int THEN chr(src.v) ELSE expand_range(src.s)
         IN  IF got.err # "none" THEN got
             ELSE def_src_loop(list, k + 1, charlist \o got.val)

RECURSIVE def_src_loop_exclusive(_, _, _)
def_src_loop_exclusive(list, k, charlist) ==
    IF k > Len(list) THEN Ok(charlist)
    ELSE LET src == list[k]
             got == IF src.int THEN chr(src.v) ELSE expand_range_exclusive(src.s)
         IN  IF got.err # "none" THEN got
             ELSE def_src_loop_exclusive(list, k + 1, charlist \o got.val)

RECURSIVE def_src_loop_checked(_, _, _)
def_src_loop_checked(list, k, charlist) ==
    IF k > Len(list) THEN Ok(charlist)
    ELSE LET src == list[k]
             got == IF src.int THEN chr(src.v) ELSE expand_range_checked(src.s)
         IN  IF got.err # "none" THEN got
             ELSE def_src_loop_checked(list, k + 1, charlist \o got.val)

_unicode_def_src_to_str_exclusive(list) == def_src_loop_exclusive(list, 1, <<>>)
_unicode_def_src_to_str_checked(list) == def_src_loop_checked(list, 1, <<>>)

_unicode_def_src_to_str(list) == def_src_loop(list, 1, <<>>)

(***************************************************************************)
(* _UNICODE_CATEGORY_SRC                                                   *)
(*                                                                         *)
(* A string literal of the source is written lit(<<"0", "0", ...>>), its   *)
(* characters one by one; ord gives their code points.  Three entries of   *)
(* the table are modelled, each in full: 'ASCII', 'Noncharacter_Code_      *)
(* Point' and 'White_Space'.  The other entries have the same shape and    *)
(* expand to thousands of characters or more ('Any' to 1114112).           *)
(***************************************************************************)
ord(c) ==
    CASE c = "0" -> 48 [] c = "1" -> 49 [] c = "2" -> 50 [] c = "3" -> 51
      [] c = "4" -> 52 [] c = "5" -> 53 [] c = "6" -> 54 [] c = "7" -> 55
      [] c = "8" -> 56 [] c = "9" -> 57
      [] c = "A" -> 65 [] c = "B" -> 66 [] c = "C" -> 67 [] c = "D" -> 68
      [] c = "E" -> 69 [] c = "F" -> 70 [] c = "G" -> 71
      [] c = "-" -> 45

lit(cs) == [k \in 1..Len(cs) |-> ord(cs[k])]

ASCII_SRC ==
    <<StrDecl(lit(<<"0", "0", "0", "0", "-", "0", "0", "7", "F">>))>>

Noncharacter_Code_Point_SRC ==
    <<StrDecl(lit(<<"F", "D", "D", "0", "-", "F", "D", "E", "F">>)),
       IntDecl(\hFFFE),
       IntDecl(\hFFFF),
       IntDecl(\h1FFFE),
       IntDecl(\h1FFFF),
       IntDecl(\h2FFFE),
       IntDecl(\h2FFFF),
       IntDecl(\h3FFFE),
       IntDecl(\h3FFFF),
       IntDecl(\h4FFFE),
       IntDecl(\h4FFFF),
       IntDecl(\h5FFFE),
       IntDecl(\h5FFFF),
       IntDecl(\h6FFFE),
       IntDecl(\h6FFFF),
       IntDecl(\h7FFFE),
       IntDecl(\h7FFFF),
       IntDecl(\h8FFFE),
       IntDecl(\h8FFFF),
       IntDecl(\h9FFFE),
       IntDecl(\h9FFFF),
       IntDecl(\hAFFFE),
       IntDecl(\hAFFFF),
       IntDecl(\hBFFFE),
       IntDecl(\hBFFFF),
       IntDecl(\hCFFFE),
       IntDecl(\hCFFFF),
       IntDecl(\hDFFFE),
       IntDecl(\hDFFFF),
       IntDecl(\hEFFFE),
       IntDecl(\hEFFFF),
       IntDecl(\hFFFFE),
       IntDecl(\hFFFFF),
       IntDecl(\h10FFFE),
       IntDecl(\h10FFFF)>>

White_Space_SRC ==
    <<StrDecl(lit(<<"0", "0", "0", "9", "-", "0", "0", "0", "D">>)),
       IntDecl(\h0020),
       IntDecl(\h0085),
       IntDecl(\h00A0),
       IntDecl(\h1680),
       StrDecl(lit(<<"2", "0", "0", "0", "-", "2", "0", "0", "A">>)),
       IntDecl(\h2028),
       IntDecl(\h2029),
       IntDecl(\h202F),
       IntDecl(\h205F),
       IntDecl(\h3000)>>

_UNICODE_CATEGORY_SRC ==
    [k \in {"ASCII", "Noncharacter_Code_Point", "White_Space"} |->
        CASE k = "ASCII" -> ASCII_SRC
          [] k = "Noncharacter_Code_Point" -> Noncharacter_Code_Point_SRC
          [] k = "White_Space" -> White_Space_SRC]

(***************************************************************************)
(* get_unicode_category_strings / get_unicode_characters                   *)
(*                                                                         *)
(* Both read the table tbl; their outcome is [err, val, table], table      *)
(* being the table as the call leaves it.                                  *)
(***************************************************************************)
Left(r, tbl) == [err |-> r.err, val |-> r.val, table |-> tbl]

\* {k: _unicode_def_src_to_str(v) for k, v in tbl.items()}: the first
\* expansion that raises ends the comprehension with its exception.
get_unicode_category_strings_exclusive(tbl) ==
    LET each == [k \in DOMAIN tbl |-> _unicode_def_src_to_str_exclusive(tbl[k])]
        bad == {k \in DOMAIN tbl : each[k].err # "none"}
    IN  IF bad # {}
        THEN Left(Fail(each[CHOOSE k \in bad : TRUE].err), tbl)
        ELSE Left(Ok([k \in DOMAIN tbl |-> each[k].val]), tbl)

\* get_unicode_category_strings taking the entries out of the table as it
\* expands them (tbl.pop(k) for tbl[k]).
get_unicode_category_strings_draining(tbl) ==
    LET each == [k \in DOMAIN tbl |-> _unicode_def_src_to_str(tbl[k])]
        bad == {k \in DOMAIN tbl : each[k].err # "none"}
    IN  IF bad # {}
        THEN Left(Fail(each[CHOOSE k \in bad : TRUE].err), tbl)
        ELSE Left(Ok([k \in DOMAIN tbl |-> each[k].val]), [k \in {} |-> <<>>])

get_unicode_category_strings(tbl) ==
    LET each == [k \in DOMAIN tbl |-> _unicode_def_src_to_str(tbl[k])]
        bad == {k \in DOMAIN tbl : each[k].err # "none"}
    IN  IF bad # {}
        THEN Left(Fail(each[CHOOSE k \in bad : TRUE].err), tbl)
        ELSE Left(Ok([k \in DOMAIN tbl |-> each[k].val]), tbl)

\* definition_strings = tbl[category]: KeyError for a key tbl does not hold.
\* tbl.setdefault(category, []) in its place:
get_unicode_characters_setdefault(tbl, category) ==
    LET tbl2 == IF category \in DOMAIN tbl THEN tbl
                ELSE [k \in DOMAIN tbl \cup {category} |->
                         IF k \in DOMAIN tbl THEN tbl[k] ELSE <<>>]
    IN  Left(_unicode_def_src_to_str(tbl2[category]), tbl2)

get_unicode_characters(tbl, category) ==
    IF category \notin DOMAIN tbl THEN Left(Fail("KeyError"), tbl)
    ELSE Left(_unicode_def_src_to_str(tbl[category]), tbl)

(***************************************************************************)
(* Codec: the calls.  Every call is made on the value the chain has        *)
(* reached: the input itself, or what the previous call returned.          *)
(***************************************************************************)
CanCall == Len(chain) < MaxChain /\ err = "none"

CallEscapeNewlines ==
    /\ CanCall
    /\ arg' = ret
    /\ ret' = escape_newlines(ret)
    /\ err' = "none"
    /\ scan' = NoScan
    /\ chain' = Append(chain, "escape_newlines")
    /\ UNCHANGED <<src0, entered, unicode_vars>>

CallEscapeTabsNewlines ==
    /\ CanCall
    /\ arg' = ret
    /\ ret' = escape_tabs_newlines(ret)
    /\ err' = "none"
    /\ scan' = NoScan
    /\ chain' = Append(chain, "escape_tabs_newlines")
    /\ UNCHANGED <<src0, entered, unicode_vars>>

CallUnescapeNewlines ==
    /\ CanCall
    /\ LET r == unescape_newlines_run(ret) IN
        /\ arg' = ret
        /\ ret' = r.ret
        /\ err' = r.err
        /\ scan' = [in_escape |-> r.in_escape, i |-> r.i]
    /\ chain' = Append(chain, "unescape_newlines")
    /\ UNCHANGED <<src0, entered, unicode_vars>>

CallUnescapeTabsNewlines ==
    /\ CanCall
    /\ LET r == unescape_tabs_newlines_run(ret) IN
        /\ arg' = ret
        /\ ret' = r.ret
        /\ err' = r.err
        /\ scan' = [in_escape |-> r.in_escape, i |-> r.i]
    /\ chain' = Append(chain, "unescape_tabs_newlines")
    /\ UNCHANGED <<src0, entered, unicode_vars>>

(***************************************************************************)
(* Expander: the declaration lists it is called with.  A list is drawn as  *)
(* declarations (an integer, a range first..last, or a malformed text) and *)
(* written the way the table writes them: an int, or the two endpoints in  *)
(* hexadecimal, four digits at least, with a hyphen between.               *)
(***************************************************************************)
HexChar(d) == IF d < 10 THEN 48 + d ELSE 55 + d

RECURSIVE HexDigits(_)
HexDigits(n) == IF n < 16 THEN <<HexChar(n)>>
                ELSE HexDigits(n \div 16) \o <<HexChar(n % 16)>>

RECURSIVE Pad4(_)
Pad4(s) == IF Len(s) >= 4 THEN s ELSE Pad4(<<48>> \o s)

Hex(n) == Pad4(HexDigits(n))

IntSamples == {-1, 65, 55296, 1114111, 1114112}
RangeStarts == {65, 55295, 1114110, 1114113}
Malformed ==
    { lit(<<"4", "1">>),
      lit(<<"4", "1", "-", "4", "3", "-", "4", "5">>),
      lit(<<"4", "G", "-", "4", "3">>),
      lit(<<"-", "4", "1">>),
      <<>> }

Declarations ==
    {[kind |-> "int", a |-> v, b |-> v, t |-> <<>>] : v \in IntSamples}
    \cup {[kind |-> "range", a |-> a, b |-> a + k, t |-> <<>>] :
              a \in RangeStarts, k \in -1..MaxSpan}
    \cup {[kind |-> "text", a |-> 0, b |-> 0, t |-> t] : t \in Malformed}

DeclLists == UNION {[1..n -> Declarations] : n \in 0..MaxDecls}

WriteDecl(d) ==
    CASE d.kind = "int" -> IntDecl(d.a)
      [] d.kind = "range" -> StrDecl(Hex(d.a) \o <<HYPHEN>> \o Hex(d.b))
      [] d.kind = "text" -> StrDecl(d.t)

Write(ds) == [k \in 1..Len(ds) |-> WriteDecl(ds[k])]

(***************************************************************************)
(* Initial states: the codec, the expander and the table are independent,  *)
(* so each is explored from its own initial states with the others idle.   *)
(***************************************************************************)
LookupNames ==
    DOMAIN _UNICODE_CATEGORY_SRC
        \cup {"NotACategory", "ascii", "Ascii", "white_space", ""}

NotCalled == [err |-> "not called", val |-> NoString]

CodecIdle ==
    /\ src0 = <<>>
    /\ chain = <<>>
    /\ arg = <<>>
    /\ ret = <<>>
    /\ err = "none"
    /\ scan = NoScan
    /\ entered = 0

UnicodeIdle ==
    /\ srclist = <<>>
    /\ decls = <<>>
    /\ table = _UNICODE_CATEGORY_SRC
    /\ ufn = "none"
    /\ uarg = ""
    /\ uret = NotCalled
    /\ single = [n \in LookupNames |-> NotCalled]
    /\ batch = NotCalled
    /\ expanded = NotCalled
    /\ ncalls = 0

Init ==
    /\ src0 \in Strings(MaxLen)
    /\ chain = <<>>
    /\ arg = src0
    /\ ret = src0
    /\ err = "none"
    /\ scan = NoScan
    /\ entered = 0
    /\ UnicodeIdle

Next ==
    \/ CallEscapeNewlines
    \/ CallEscapeTabsNewlines
    \/ CallUnescapeNewlines
    \/ CallUnescapeTabsNewlines

Spec == Init /\ [][Next]_vars

(***************************************************************************)
(* Expander: one call of _unicode_def_src_to_str on the list drawn.        *)
(***************************************************************************)
InitExpand ==
    /\ CodecIdle
    /\ decls \in DeclLists
    /\ srclist = Write(decls)
    /\ table = _UNICODE_CATEGORY_SRC
    /\ ufn = "none"
    /\ uarg = ""
    /\ uret = NotCalled
    /\ single = [n \in LookupNames |-> NotCalled]
    /\ batch = NotCalled
    /\ expanded = NotCalled
    /\ ncalls = 0

CallUnicodeDefSrcToStr ==
    /\ ufn = "none"
    /\ ufn' = "_unicode_def_src_to_str"
    /\ uret' = _unicode_def_src_to_str(srclist)
    /\ expanded' = _unicode_def_src_to_str(srclist)
    /\ UNCHANGED <<codec_vars, srclist, decls, table, uarg, single, batch, ncalls>>

NextExpand == CallUnicodeDefSrcToStr

SpecExpand == InitExpand /\ [][NextExpand]_vars

(***************************************************************************)
(* Table: sequences of get_unicode_characters and                          *)
(* get_unicode_category_strings calls.                                     *)
(***************************************************************************)
InitTable == CodecIdle /\ UnicodeIdle

CallGetUnicodeCharacters ==
    /\ ncalls < MaxCalls
    /\ \E category \in LookupNames :
        LET r == get_unicode_characters(table, category) IN
        /\ ufn' = "get_unicode_characters"
        /\ uarg' = category
        /\ uret' = [err |-> r.err, val |-> r.val]
        /\ table' = r.table
        /\ single' = [single EXCEPT ![category] = [err |-> r.err, val |-> r.val]]
    /\ ncalls' = ncalls + 1
    /\ UNCHANGED <<codec_vars, srclist, decls, batch, expanded>>

CallGetUnicodeCategoryStrings ==
    /\ ncalls < MaxCalls
    /\ LET r == get_unicode_category_strings(table) IN
        /\ ufn' = "get_unicode_category_strings"
        /\ uarg' = ""
        /\ uret' = [err |-> r.err, val |-> r.val]
        /\ table' = r.table
        /\ batch' = [err |-> r.err, val |-> r.val]
    /\ ncalls' = ncalls + 1
    /\ UNCHANGED <<codec_vars, srclist, decls, single, expanded>>

NextTable ==
    \/ CallGetUnicodeCharacters
    \/ CallGetUnicodeCategoryStrings

SpecTable == InitTable /\ [][NextTable]_vars

(***************************************************************************)
(* Scanner: the loops of unescape_newlines and unescape_tabs_newlines run  *)
(* one character at a time.  ret holds d, the destination string so far,   *)
(* scan the loop's in_escape and the number of characters processed.       *)
(***************************************************************************)
Stepped(d, in_escape, set_flag) ==
    [d |-> d, in_escape |-> in_escape, entered |-> set_flag]

\* The loop body with the reset of in_escape left out of its last branch.
unescape_newlines_body_sticky(c, d, in_escape) ==
    IF in_escape
    THEN IF c = LETTER_r THEN Stepped(d \o <<CR>>, FALSE, FALSE)
         ELSE IF c = LETTER_n THEN Stepped(d \o <<LF>>, FALSE, FALSE)
         ELSE Stepped(d \o <<c>>, TRUE, FALSE)
    ELSE IF c = BACKSLASH THEN Stepped(d, TRUE, TRUE)
         ELSE Stepped(d \o <<c>>, FALSE, FALSE)

\* The body of the loop of unescape_newlines for the character c.
unescape_newlines_body(c, d, in_escape) ==
    IF in_escape
    THEN IF c = LETTER_r THEN Stepped(d \o <<CR>>, FALSE, FALSE)
         ELSE IF c = LETTER_n THEN Stepped(d \o <<LF>>, FALSE, FALSE)
         ELSE Stepped(d \o <<c>>, FALSE, FALSE)
    ELSE IF c = BACKSLASH THEN Stepped(d, TRUE, TRUE)
         ELSE Stepped(d \o <<c>>, FALSE, FALSE)

\* The body of the loop of unescape_tabs_newlines for the character c.
unescape_tabs_newlines_body(c, d, in_escape) ==
    IF in_escape
    THEN IF c = LETTER_r THEN Stepped(d \o <<CR>>, FALSE, FALSE)
         ELSE IF c = LETTER_n THEN Stepped(d \o <<LF>>, FALSE, FALSE)
         ELSE IF c = LETTER_t THEN Stepped(d \o <<TAB>>, FALSE, FALSE)
         ELSE Stepped(d \o <<c>>, FALSE, FALSE)
    ELSE IF c = BACKSLASH THEN Stepped(d, TRUE, TRUE)
         ELSE Stepped(d \o <<c>>, FALSE, FALSE)

InitScan ==
    /\ src0 \in Strings(MaxLen)
    /\ chain \in {<<"unescape_newlines">>, <<"unescape_tabs_newlines">>}
    /\ arg = src0
    /\ ret = <<>>
    /\ err = "none"
    /\ scan = NoScan
    /\ entered = 0
    /\ UnicodeIdle

ScanStepNewlines ==
    /\ chain = <<"unescape_newlines">>
    /\ InRange(arg, scan.i)
    /\ LET r == unescape_newlines_body(index(arg, scan.i), ret, scan.in_escape) IN
        /\ ret' = r.d
        /\ scan' = [in_escape |-> r.in_escape, i |-> scan.i + 1]
        /\ entered' = IF r.entered THEN entered + 1 ELSE entered
    /\ UNCHANGED <<src0, chain, arg, err, unicode_vars>>

ScanStepTabsNewlines ==
    /\ chain = <<"unescape_tabs_newlines">>
    /\ InRange(arg, scan.i)
    /\ LET r == unescape_tabs_newlines_body(index(arg, scan.i), ret, scan.in_escape) IN
        /\ ret' = r.d
        /\ scan' = [in_escape |-> r.in_escape, i |-> scan.i + 1]
        /\ entered' = IF r.entered THEN entered + 1 ELSE entered
    /\ UNCHANGED <<src0, chain, arg, err, unicode_vars>>

NextScan ==
    \/ ScanStepNewlines
    \/ ScanStepTabsNewlines

SpecScan == InitScan /\ [][NextScan]_vars

(***************************************************************************)
(* Calls: sequences of calls of all three functions of the expander, the   *)
(* expander itself being called on one list, again and again.              *)
(***************************************************************************)
CallLists ==
    { ds \in DeclLists :
        \/ Len(ds) = 1 /\ ds[1].kind = "range" /\ ds[1].a = 65
                       /\ ds[1].b \in {64, 66}
        \/ Len(ds) = 1 /\ ds[1].kind = "int" /\ ds[1].a = 1114112 }

InitCalls ==
    /\ CodecIdle
    /\ decls \in CallLists
    /\ srclist = Write(decls)
    /\ table = _UNICODE_CATEGORY_SRC
    /\ ufn = "none"
    /\ uarg = ""
    /\ uret = NotCalled
    /\ single = [n \in LookupNames |-> NotCalled]
    /\ batch = NotCalled
    /\ expanded = NotCalled
    /\ ncalls = 0

CallExpandDeclarations ==
    /\ ncalls < MaxCalls
    /\ ufn' = "_unicode_def_src_to_str"
    /\ uarg' = ""
    /\ uret' = _unicode_def_src_to_str(srclist)
    /\ expanded' = _unicode_def_src_to_str(srclist)
    /\ ncalls' = ncalls + 1
    /\ UNCHANGED <<codec_vars, srclist, decls, table, single, batch>>

NextCalls ==
    \/ CallGetUnicodeCharacters
    \/ CallGetUnicodeCategoryStrings
    \/ CallExpandDeclarations

SpecCalls == InitCalls /\ [][NextCalls]_vars

(***************************************************************************)
(* Properties of the codec                                                 *)
(***************************************************************************)
Last(q) == q[Len(q)]
Front(q) == SubSeq(q, 1, Len(q) - 1)
Chars(s) == {s[k] : k \in 1..Len(s)}
IsString(s) == s # NoString /\ \A k \in 1..Len(s) : s[k] \in Alphabet
LastCall(f) == chain # <<>> /\ Last(chain) = f

\* C1: decoding with unescape_newlines what escape_newlines produced gives
\* back the original string exactly, whatever the original contains.
C1_RoundTripNewlines ==
    chain = <<"escape_newlines", "unescape_newlines">> =>
        err = "none" /\ ret = src0

C1_Witness ==
    /\ chain = <<"escape_newlines", "unescape_newlines">>
    /\ src0 = <<BACKSLASH, LETTER_n, LF>>
    /\ arg = <<BACKSLASH, BACKSLASH, LETTER_n, BACKSLASH, LETTER_n>>
    /\ ret = src0

\* C2: decoding with unescape_tabs_newlines what escape_tabs_newlines
\* produced gives back the original string exactly.
C2_RoundTripTabsNewlines ==
    chain = <<"escape_tabs_newlines", "unescape_tabs_newlines">> =>
        err = "none" /\ ret = src0

C2_Witness ==
    /\ chain = <<"escape_tabs_newlines", "unescape_tabs_newlines">>
    /\ src0 = <<TAB, BACKSLASH, LETTER_t>>
    /\ arg = <<BACKSLASH, LETTER_t, BACKSLASH, BACKSLASH, LETTER_t>>
    /\ ret = src0

\* C3: what escape_newlines returns holds no raw LF and no raw CR; what
\* escape_tabs_newlines returns holds no raw LF, CR or TAB.
C3_NoRawControlChars ==
    /\ LastCall("escape_newlines") =>
           IsString(ret) /\ Chars(ret) \cap {LF, CR} = {}
    /\ LastCall("escape_tabs_newlines") =>
           IsString(ret) /\ Chars(ret) \cap {LF, CR, TAB} = {}

C3_Witness ==
    /\ LastCall("escape_tabs_newlines")
    /\ arg = <<LF, CR, TAB>>
    /\ ret = <<BACKSLASH, LETTER_n, BACKSLASH, LETTER_r, BACKSLASH, LETTER_t>>

\* C4: both decoders return a string for every input, raise nothing and
\* process every character of the input; when the input ends in the escape
\* state its last character is a backslash that adds nothing to the result
\* (the result is that of the input without it: 'abc' + backslash gives
\* 'abc').
C4_Decode(f, s) ==
    IF f = "unescape_newlines" THEN unescape_newlines(s)
    ELSE unescape_tabs_newlines(s)

C4_UnescapeTotal ==
    \A f \in {"unescape_newlines", "unescape_tabs_newlines"} :
        LastCall(f) =>
            /\ err = "none"
            /\ IsString(ret)
            /\ scan.i = Len(arg)
            /\ scan.in_escape =>
                   /\ Last(arg) = BACKSLASH
                   /\ ret = C4_Decode(f, Front(arg))
                   /\ BACKSLASH \notin Chars(Front(arg)) => ret = Front(arg)

C4_Witness ==
    /\ LastCall("unescape_newlines")
    /\ arg = <<BACKSLASH, 97, BACKSLASH>>
    /\ scan.in_escape
    /\ ret = <<97>>

\* C8: escape_newlines returns its argument unchanged when it holds no
\* backslash, LF or CR (a TAB may be there); escape_tabs_newlines does when
\* it holds no backslash, LF, CR or TAB; all four functions return the empty
\* string for the empty string.
C8_NoOpWithoutSpecials ==
    /\ (LastCall("escape_newlines") /\ Chars(arg) \cap {BACKSLASH, LF, CR} = {})
           => ret = arg
    /\ (LastCall("escape_tabs_newlines")
            /\ Chars(arg) \cap {BACKSLASH, LF, CR, TAB} = {})
           => ret = arg
    /\ (chain # <<>> /\ arg = <<>>) => (ret = <<>> /\ err = "none")

C8_Witness ==
    /\ LastCall("escape_newlines")
    /\ arg = <<TAB, 97, LETTER_n>>
    /\ ret = arg

(***************************************************************************)
(* Properties of the expander (SpecExpand)                                 *)
(***************************************************************************)
Expanded == ufn = "_unicode_def_src_to_str"
InChrRange(x) == x >= 0 /\ x <= 1114111
IsScalar(x) == InChrRange(x) /\ ~(x >= 55296 /\ x <= 57343)
Inverted(d) == d.kind = "range" /\ d.a > d.b
ValidDecl(d) ==
    \/ d.kind = "int" /\ InChrRange(d.a)
    \/ d.kind = "range" /\ d.a <= d.b /\ InChrRange(d.a) /\ InChrRange(d.b)

\* The characters a declaration stands for: the code point itself, or
\* first..last in ascending order (none when first > last).
CharsOf(d) ==
    IF d.kind = "int" THEN <<d.a>>
    ELSE [k \in 1..(d.b - d.a + 1) |-> d.a + k - 1]

RECURSIVE Concatenated(_, _)
Concatenated(ds, k) ==
    IF k > Len(ds) THEN <<>> ELSE CharsOf(ds[k]) \o Concatenated(ds, k + 1)

RECURSIVE SummedLength(_, _)
SummedLength(ds, k) ==
    IF k > Len(ds) THEN 0
    ELSE (IF ds[k].kind = "int" THEN 1 ELSE ds[k].b - ds[k].a + 1)
             + SummedLength(ds, k + 1)

C7_ExpandsInDeclarationOrder ==
    (Expanded /\ \A k \in 1..Len(decls) : ValidDecl(decls[k])) =>
        /\ uret.err = "none"
        /\ uret.val = Concatenated(decls, 1)
        /\ Len(uret.val) = SummedLength(decls, 1)

C7_Witness ==
    /\ Expanded
    /\ Len(decls) = 2
    /\ decls[1].kind = "range" /\ decls[1].a = 65 /\ decls[1].b = 67
    /\ decls[2].kind = "range" /\ decls[2].a = 65 /\ decls[2].b = 66
    /\ uret = Ok(<<65, 66, 67, 65, 66>>)

\* C10 (as claimed): the expander fails, returning no string, whenever a
\* declared code point (a single integer, or an endpoint of a range) is
\* negative, above 0x10FFFF or a surrogate.
C10_NonScalarFails ==
    (Expanded /\ \E k \in 1..Len(decls) :
                    /\ decls[k].kind \in {"int", "range"}
                    /\ ~IsScalar(decls[k].a) \/ ~IsScalar(decls[k].b)) =>
        uret.err # "none" /\ uret.val = NoString

\* C10 (amended): the expander fails, returning no string, whenever a
\* single integer is negative or above 0x10FFFF, or a range with
\* first <= last reaches above 0x10FFFF; surrogate code points are
\* expanded like any other code point.
C10_OutOfRangeFails ==
    /\ (Expanded /\ \E k \in 1..Len(decls) :
                      \/ decls[k].kind = "int" /\ ~InChrRange(decls[k].a)
                      \/ /\ decls[k].kind = "range"
                         /\ decls[k].a <= decls[k].b
                         /\ ~InChrRange(decls[k].b)) =>
           uret = Fail("ValueError")
    /\ (Expanded /\ \A k \in 1..Len(decls) :
                      ValidDecl(decls[k]) /\ ~IsScalar(decls[k].b)) =>
           uret.err = "none" /\ uret.val = Concatenated(decls, 1)

C10_Witness ==
    /\ Expanded
    /\ Len(decls) = 2
    /\ decls[1].kind = "int" /\ decls[1].a = 65
    /\ decls[2].kind = "range" /\ decls[2].a = 1114110 /\ decls[2].b = 1114112
    /\ uret = Fail("ValueError")

(***************************************************************************)
(* Properties of the table lookups (SpecTable)                             *)
(***************************************************************************)
\* C6: get_unicode_characters with a name that is no key of the table
\* raises KeyError and returns nothing, a name that differs from a key
\* only in case included, and leaves the table as it was.
C6_UnknownCategoryRaises ==
    /\ table = _UNICODE_CATEGORY_SRC
    /\ (ufn = "get_unicode_characters" /\ uarg \notin DOMAIN _UNICODE_CATEGORY_SRC)
           => uret = Fail("KeyError")
    /\ (ufn = "get_unicode_characters" /\ uarg \in {"ascii", "Ascii", "white_space"})
           => uret = Fail("KeyError")
    /\ \A n \in LookupNames \ DOMAIN _UNICODE_CATEGORY_SRC :
           single[n] \in {NotCalled, Fail("KeyError")}

C6_Witness ==
    /\ ufn = "get_unicode_characters"
    /\ uarg = "ascii"
    /\ uret = Fail("KeyError")
    /\ single["ASCII"].err = "none" /\ Len(single["ASCII"].val) = 128

\* C9: get_unicode_category_strings returns a mapping whose keys are the
\* keys of the table and whose value for each key is what
\* get_unicode_characters returns for that key.
C9_BatchAgreesWithSingle ==
    batch # NotCalled =>
        /\ batch.err = "none"
        /\ DOMAIN batch.val = DOMAIN table
        /\ \A k \in DOMAIN table :
              /\ get_unicode_characters(table, k).err = "none"
              /\ batch.val[k] = get_unicode_characters(table, k).val
              /\ single[k] # NotCalled => single[k] = Ok(batch.val[k])

C9_Witness ==
    /\ batch # NotCalled
    /\ single["White_Space"] # NotCalled
    /\ Len(batch.val["White_Space"]) = 25
    /\ single["White_Space"].val = batch.val["White_Space"]

(***************************************************************************)
(* Properties of sequences of calls (SpecCalls)                            *)
(***************************************************************************)
\* C11: whatever calls of get_unicode_characters,
\* get_unicode_category_strings and _unicode_def_src_to_str are made, failing
\* ones included, the table stays what it was initially, and a call made
\* again with the same arguments returns what it returned before.
C11_SameAgain ==
    /\ table' = table
    /\ (ufn' = "get_unicode_characters" /\ single[uarg'] # NotCalled)
           => uret' = single[uarg']
    /\ (ufn' = "get_unicode_category_strings" /\ batch # NotCalled)
           => uret' = batch
    /\ (ufn' = "_unicode_def_src_to_str" /\ expanded # NotCalled)
           => uret' = expanded

C11_TableAndResultsStable ==
    [](table = _UNICODE_CATEGORY_SRC) /\ [][C11_SameAgain]_vars

\* Three calls made, of which the failing lookup of "ascii" and the batch
\* expansion are the only ones to have left an outcome: one of the two was
\* made twice.
C11_Witness ==
    /\ ncalls = 3
    /\ table = _UNICODE_CATEGORY_SRC
    /\ single["ascii"] = Fail("KeyError")
    /\ \A n \in LookupNames \ {"ascii"} : single[n] = NotCalled
    /\ batch # NotCalled /\ batch.err = "none"
    /\ expanded = NotCalled

(***************************************************************************)
(* Properties of the scanner (SpecScan)                                    *)
(***************************************************************************)
\* C12: the unescape loop is a two-state automaton.  Outside the escape
\* state a backslash emits nothing and enters it, any other character is
\* copied and the state stays; inside the escape state exactly one
\* character is emitted (CR for 'r', LF for 'n', TAB for 't' in the tab
\* variant only, the character itself otherwise, a backslash included) and
\* the state is left.  So the loop is never in the escape state after two
\* characters in a row, and the output is as long as the input less the
\* number of times the escape state was entered.
C12_Escaped(c, tabs) ==
    IF c = LETTER_r THEN CR
    ELSE IF c = LETTER_n THEN LF
    ELSE IF tabs /\ c = LETTER_t THEN TAB
    ELSE c

C12_Step ==
    LET c == arg[scan.i + 1]
        tabs == chain = <<"unescape_tabs_newlines">>
    IN  /\ scan'.i = scan.i + 1
        /\ (~scan.in_escape /\ c = BACKSLASH) =>
               ret' = ret /\ scan'.in_escape /\ entered' = entered + 1
        /\ (~scan.in_escape /\ c # BACKSLASH) =>
               ret' = ret \o <<c>> /\ ~scan'.in_escape /\ entered' = entered
        /\ scan.in_escape =>
               /\ ret' = ret \o <<C12_Escaped(c, tabs)>>
               /\ ~scan'.in_escape
               /\ entered' = entered

C12_Lengths ==
    /\ Len(ret) = scan.i - entered
    /\ scan.i = Len(arg) =>
           /\ Len(ret) = Len(arg) - entered
           /\ ret = IF chain = <<"unescape_newlines">>
                    THEN unescape_newlines(arg)
                    ELSE unescape_tabs_newlines(arg)

C12_TwoStateScanner == []C12_Lengths /\ [][C12_Step]_vars

C12_Witness ==
    /\ chain = <<"unescape_tabs_newlines">>
    /\ arg = <<BACKSLASH, LETTER_t, BACKSLASH>>
    /\ scan = [in_escape |-> TRUE, i |-> 3]
    /\ entered = 2
    /\ ret = <<TAB>>

(***************************************************************************)
(* Further properties of the codec (Spec)                                  *)
(***************************************************************************)
\* C13: the passes of escape_newlines (backslash, LF, CR) and of
\* escape_tabs_newlines (backslash, LF, CR, TAB), each over the whole
\* string, give what one left-to-right pass gives that maps every character
\* of the input on its own: a backslash to two, LF, CR (and TAB in the tab
\* variant) to a backslash and a letter, anything else to itself.  A
\* backslash that a later pass puts in is never doubled.
C13_Mapped(c, tabs) ==
    IF c = BACKSLASH THEN <<BACKSLASH, BACKSLASH>>
    ELSE IF c = LF THEN <<BACKSLASH, LETTER_n>>
    ELSE IF c = CR THEN <<BACKSLASH, LETTER_r>>
    ELSE IF tabs /\ c = TAB THEN <<BACKSLASH, LETTER_t>>
    ELSE <<c>>

RECURSIVE C13_SinglePass(_, _, _)
C13_SinglePass(s, k, tabs) ==
    IF k > Len(s) THEN <<>>
    ELSE C13_Mapped(s[k], tabs) \o C13_SinglePass(s, k + 1, tabs)

C13_PassesAreOnePass ==
    /\ LastCall("escape_newlines") => ret = C13_SinglePass(arg, 1, FALSE)
    /\ LastCall("escape_tabs_newlines") => ret = C13_SinglePass(arg, 1, TRUE)

C13_Witness ==
    /\ LastCall("escape_tabs_newlines")
    /\ arg = <<LF, BACKSLASH, TAB>>
    /\ ret = <<BACKSLASH, LETTER_n, BACKSLASH, BACKSLASH, BACKSLASH, LETTER_t>>

\* C14: the two variants differ on tabs only.  escape_newlines and
\* unescape_newlines each leave the tabs of their argument as they are, so
\* a TAB comes back unchanged through the plain pair; unescape_newlines
\* applied to what escape_tabs_newlines made of s gives s with every TAB
\* turned into the letter 't', which is not s when s holds a TAB; and for s
\* without TAB escape_tabs_newlines(s) = escape_newlines(s).
C14_Tabs(s) == {k \in 1..Len(s) : s[k] = TAB}
C14_TabsAsT(s) == [k \in 1..Len(s) |-> IF s[k] = TAB THEN LETTER_t ELSE s[k]]

C14_VariantsDifferOnTabsOnly ==
    /\ LastCall("escape_newlines") =>
           Cardinality(C14_Tabs(ret)) = Cardinality(C14_Tabs(arg))
    /\ LastCall("unescape_newlines") =>
           Cardinality(C14_Tabs(ret)) = Cardinality(C14_Tabs(arg))
    /\ chain = <<"escape_newlines", "unescape_newlines">> =>
           C14_Tabs(ret) = C14_Tabs(src0)
    /\ chain = <<"escape_tabs_newlines", "unescape_newlines">> =>
           /\ ret = C14_TabsAsT(src0)
           /\ C14_Tabs(src0) # {} => ret # src0
    /\ (LastCall("escape_tabs_newlines") /\ C14_Tabs(arg) = {}) =>
           ret = escape_newlines(arg)
    /\ (LastCall("escape_newlines") /\ C14_Tabs(arg) = {}) =>
           ret = escape_tabs_newlines(arg)

C14_Witness ==
    /\ chain = <<"escape_tabs_newlines", "unescape_newlines">>
    /\ src0 = <<TAB, 97, TAB>>
    /\ arg = <<BACKSLASH, LETTER_t, 97, BACKSLASH, LETTER_t>>
    /\ ret = <<LETTER_t, 97, LETTER_t>>

\* C15: decoding is not one-to-one on arbitrary text.  unescape_newlines
\* turns a backslash followed by 'n' that it meets outside the escape state
\* into one LF, the result being that of the same text with a raw LF in
\* that place; escape_newlines(unescape_newlines(e)) = e fails for some e
\* (a raw LF, a backslash before 'a') and holds for every e that
\* escape_newlines returned.
C15_WithLF(s, k) == SubSeq(s, 1, k - 1) \o <<LF>> \o SubSeq(s, k + 2, Len(s))

C15_DecodeNotInjective ==
    /\ LastCall("unescape_newlines") =>
           \A k \in 1..(Len(arg) - 1) :
               (/\ arg[k] = BACKSLASH
                /\ arg[k + 1] = LETTER_n
                /\ ~unescape_newlines_run(SubSeq(arg, 1, k - 1)).in_escape) =>
                   /\ ret = unescape_newlines(C15_WithLF(arg, k))
                   /\ C15_WithLF(arg, k) # arg
    /\ (LastCall("unescape_newlines") /\ arg \in {<<LF>>, <<BACKSLASH, 97>>}) =>
           escape_newlines(ret) # arg
    /\ chain = <<"escape_newlines", "unescape_newlines">> =>
           escape_newlines(ret) = arg

C15_Witness ==
    /\ chain = <<"unescape_newlines">>
    /\ arg = <<97, BACKSLASH, LETTER_n>>
    /\ ret = <<97, LF>>
    /\ ret = unescape_newlines(<<97, LF>>)

\* C16: what escape_newlines returns splits, left to right, into tokens
\* that are one character other than a backslash, or a backslash followed
\* by a backslash, 'n' or 'r' ('t' as well for escape_tabs_newlines).  So it
\* never ends in a backslash without a partner, the decoder ends outside
\* the escape state on it, and it is as long as the argument plus the
\* number of characters of the argument that were escaped.
RECURSIVE C16_Tokens(_, _, _)
C16_Tokens(s, k, letters) ==
    IF k > Len(s) THEN TRUE
    ELSE IF s[k] # BACKSLASH THEN C16_Tokens(s, k + 1, letters)
    ELSE /\ k + 1 <= Len(s)
         /\ s[k + 1] \in letters \cup {BACKSLASH}
         /\ C16_Tokens(s, k + 2, letters)

C16_Escaped(s, specials) == Cardinality({k \in 1..Len(s) : s[k] \in specials})

C16_EncoderOutputWellFormed ==
    /\ LastCall("escape_newlines") =>
           /\ C16_Tokens(ret, 1, {LETTER_n, LETTER_r})
           /\ ~unescape_newlines_run(ret).in_escape
           /\ Len(ret) = Len(arg) + C16_Escaped(arg, {BACKSLASH, LF, CR})
    /\ LastCall("escape_tabs_newlines") =>
           /\ C16_Tokens(ret, 1, {LETTER_n, LETTER_r, LETTER_t})
           /\ ~unescape_tabs_newlines_run(ret).in_escape
           /\ Len(ret) = Len(arg) + C16_Escaped(arg, {BACKSLASH, LF, CR, TAB})
    /\ chain \in {<<"escape_newlines", "unescape_newlines">>,
                  <<"escape_tabs_newlines", "unescape_tabs_newlines">>} =>
           ~scan.in_escape /\ scan.i = Len(arg)

C16_Witness ==
    /\ chain = <<"escape_newlines", "unescape_newlines">>
    /\ src0 = <<97, LF, BACKSLASH>>
    /\ arg = <<97, BACKSLASH, LETTER_n, BACKSLASH, BACKSLASH>>
    /\ ~scan.in_escape
    /\ scan.i = 5

====
